---- MODULE Spec2Model ----
(***************************************************************************)
(* A model of the concurrent profile harvesting pipeline of                *)
(* insta_scraper_enhanced.py: the timeline merge engine, the resumable     *)
(* work list (load_urls / done-file), the worker pool and the scroll       *)
(* controller of scrape_profile.                                           *)
(*                                                                         *)
(* The module holds several specifications over one set of variables; a    *)
(* specification leaves the variables of the other parts at their initial  *)
(* values.                                                                 *)
(*   SpecMerge   merge_timeline_data applied to a stream of timeline pages *)
(*   SpecLoad    main up to the seeding of the queue, on arbitrary files   *)
(*   SpecRun     runs of main with the worker pool, stops and restarts     *)
(*   SpecScroll  the scroll loop of scrape_profile for one profile         *)
(***************************************************************************)
EXTENDS Integers, Sequences, FiniteSets, TLC

VARIABLES
    \* ---- merge engine (SpecMerge) ----
    acc,        \* combined_data["reel_info"]: the accumulated timeline
    prevAcc,    \* history: acc before the last merge
    lastPage,   \* history: the page of the last merge
    seenOrder,  \* history: distinct ids of all merged pages, by first arrival
    nMerges,    \* history: number of merges done
    remerged,   \* history: the last step merged lastPage a second time
    \* ---- files, kept across runs (SpecLoad, SpecRun) ----
    inputFile,      \* INPUT_FILE: [st, rows], rows = its url column
    doneFile,       \* DONE_FILE: [st, rows]
    \* ---- one run of main (SpecLoad, SpecRun) ----
    phase,          \* "idle" | "running" | "finished" | "crashed"
    run,            \* number of runs of main started so far
    urls_to_process,\* main: the pending list returned by load_urls
    done_loaded,    \* main: done_urls, the second value returned by load_urls
    url_queue,      \* main: url_queue (FIFO)
    unfinished,     \* url_queue.unfinished_tasks
    stats,          \* main: stats
    no_response_links,
    newly_completed_urls,
    done_urls_lock, \* 0 = free, w = held by worker w
    pc,             \* worker -> its position in worker_thread / save_data
    cur,            \* worker -> the url it claimed
    data,           \* worker -> the result of scrape_profile
    \* ---- history of the runs ----
    originalInput,  \* the rows of INPUT_FILE before the first run
    everDone,       \* the urls appended to DONE_FILE so far
    doneAtStart,    \* everDone when the current run started
    claimedBy,      \* k-th entry taken from url_queue -> the worker that took it
    \* ---- the locks and the steps inside them (SpecLocks) ----
    stats_lock,     \* 0 = free, w = held by worker w
    count_read,     \* worker -> the counter value it read for its += 1,
                    \* 0 once the += 1 is done
    rows_read,      \* worker -> the input rows it read for the rewrite,
                    \* empty once remove_url_from_input_file has returned
    intended,       \* history: the mutations begun so far, by kind
    \* ---- the rate limiter (SpecWait) ----
    wait_profile,   \* the profile_data given to calculate_dynamic_wait_time
    base_wait,      \* the draw of random.uniform(1.0, 2.0), in ticks
    wait_time,      \* the value returned, in ticks; -1 before the call
    \* ---- scroll controller of scrape_profile (SpecScroll; it uses acc) ----
    spc,                \* "nav" | "eval" | "scroll" | "post" | "returned"
    scroll_attempts,
    posts_before,
    no_new_posts_count,
    profile_info,       \* combined_data["profile_info"]: "none" | "public" | "private"
    netlog,             \* the browser's performance log: events not read yet
    cursor,             \* the timeline pages the server has sent so far
    returned,           \* what scrape_profile returns
    \* ---- history of the scroll loop ----
    nEvals,             \* evaluation steps begun (reads of the log)
    nLoadMore,          \* load-more actions begun (execute_script calls)
    observed,           \* posts_after of the last evaluation step, -1 before
    stagnantEvals,      \* evaluation steps in a row that observed the count of
                        \* the evaluation step before them
    reason,             \* why the loop ended
    raisedAt,           \* the statement of scrape_profile that raised, "no" if none
    \* ---- the output directory and the item of a worker ----
    userInfo_json,      \* the urls whose output/<username>/userInfo.json is written
    waited,             \* worker -> the rate limiter's wait was made since it
                        \* last came to the head of its loop
    \* ---- the spinner of scrape_profile ----
    spinner_active,     \* the global flag, shared by every worker
    spinner_alive,      \* worker -> its spinner thread runs
    spos,               \* worker -> its position in scrape_profile
    scrapes             \* worker -> calls of scrape_profile begun

mergeVars == <<acc, prevAcc, lastPage, seenOrder, nMerges, remerged>>

fileVars == <<inputFile, doneFile>>

mainVars == <<phase, run, urls_to_process, done_loaded, url_queue, unfinished,
              stats, no_response_links, newly_completed_urls>>

workerVars == <<done_urls_lock, pc, cur, data>>

histVars == <<originalInput, everDone, doneAtStart, claimedBy>>

lockVars == <<stats_lock, count_read, rows_read, intended>>

waitVars == <<wait_profile, base_wait, wait_time>>

itemVars == <<userInfo_json, waited>>

spinVars == <<spinner_active, spinner_alive, spos, scrapes>>

runVars == <<fileVars, mainVars, workerVars, histVars, lockVars, waitVars,
             itemVars, spinVars>>

scrollVars == <<spc, scroll_attempts, posts_before, no_new_posts_count,
                profile_info, netlog, cursor, returned,
                nEvals, nLoadMore, observed, stagnantEvals, reason, raisedAt>>

vars == <<mergeVars, runVars, scrollVars>>

----------------------------------------------------------------------------
(* Bounds of the model *)

MaxId == 3
MaxPageLen == 2
MaxMerges == 3
MaxInputLen == 2
MaxDoneLen == 2
MaxRuns == 2
NPages == 5
PageSize == 10
MaxBatch == 1
MaxFollowerSteps == 2
MaxPostSteps == 2
MaxBaseSteps == 2
MaxScrapes == 2

----------------------------------------------------------------------------
(* Generic helpers *)

SeqsUpTo(S, n) == UNION {[1..k -> S] : k \in 0..n}

Range(s) == {s[i] : i \in 1..Len(s)}

NoDup(s) == \A i, j \in 1..Len(s) : i # j => s[i] # s[j]

IsPrefix(s, t) == Len(s) <= Len(t) /\ \A i \in 1..Len(s) : s[i] = t[i]

\* the index of the first occurrence of a in s (a \in Range(s))
Pos(s, a) == CHOOSE i \in 1..Len(s) : s[i] = a /\ \A j \in 1..(i - 1) : s[j] # a

----------------------------------------------------------------------------
(* Timeline data.  A timeline response body is modelled by its edge list;  *)
(* an edge is modelled by edge["node"]["id"].  NoData is Python's None,    *)
(* BadShape a body that has the timeline key but no edges list under it.   *)

Ids == 1..MaxId

NoData == [kind |-> "none", edges |-> <<>>]

BadShape == [kind |-> "badshape", edges |-> <<>>]

TimelinePage(es) == [kind |-> "page", edges |-> es]

TimelinePages == {TimelinePage(es) : es \in SeqsUpTo(Ids, MaxPageLen)}

\* Python truthiness of a response body (None is falsy, a non-empty dict truthy)
Truthy(d) == d.kind # "none"

\* mutant of MergeLoop: the membership test of line 314 dropped
RECURSIVE MergeLoopNoCheck(_, _, _)
MergeLoopNoCheck(existing_edges, existing_ids, new_edges) ==
    IF new_edges = <<>> THEN existing_edges
    ELSE MergeLoopNoCheck(Append(existing_edges, Head(new_edges)),
                          existing_ids \cup {Head(new_edges)}, Tail(new_edges))

\* mutant of MergeLoop: a new edge is put in front instead of appended
RECURSIVE MergeLoopPrepend(_, _, _)
MergeLoopPrepend(existing_edges, existing_ids, new_edges) ==
    IF new_edges = <<>> THEN existing_edges
    ELSE IF Head(new_edges) \notin existing_ids
         THEN MergeLoopPrepend(<<Head(new_edges)>> \o existing_edges,
                               existing_ids \cup {Head(new_edges)}, Tail(new_edges))
         ELSE MergeLoopPrepend(existing_edges, existing_ids, Tail(new_edges))

\* the for loop of merge_timeline_data
RECURSIVE MergeLoop(_, _, _)
MergeLoop(existing_edges, existing_ids, new_edges) ==
    IF new_edges = <<>> THEN existing_edges
    ELSE IF Head(new_edges) \notin existing_ids
         THEN MergeLoop(Append(existing_edges, Head(new_edges)),
                        existing_ids \cup {Head(new_edges)}, Tail(new_edges))
         ELSE MergeLoop(existing_edges, existing_ids, Tail(new_edges))

\* merge_timeline_data(existing_data, new_data).  Reading the edges of a
\* BadShape body raises inside the try, before anything is appended: the
\* except branch returns existing_data.
merge_timeline_data(existing_data, new_data) ==
    IF ~Truthy(existing_data) THEN new_data
    ELSE IF ~Truthy(new_data) THEN existing_data
    ELSE IF existing_data.kind = "badshape" \/ new_data.kind = "badshape"
         THEN existing_data
         ELSE TimelinePage(MergeLoop(existing_data.edges,
                                     Range(existing_data.edges),
                                     new_data.edges))

----------------------------------------------------------------------------
(* Identifiers (urls) are strings, modelled as sequences of characters, so *)
(* that the normalisation of load_urls is computed and not assumed.        *)

RECURSIVE LStrip(_, _)
LStrip(s, c) == IF s # <<>> /\ Head(s) = c THEN LStrip(Tail(s), c) ELSE s

RECURSIVE RStrip(_, _)
RStrip(s, c) ==
    IF s # <<>> /\ s[Len(s)] = c THEN RStrip(SubSeq(s, 1, Len(s) - 1), c) ELSE s

\* url.strip().rstrip('/')
Normalize(url) == RStrip(RStrip(LStrip(url, " "), " "), "/")

NormSet(urls) == {Normalize(urls[i]) : i \in 1..Len(urls)}

\* the urls of the model: "a", "a/", " a", "a /", "b", "b//"
Urls == { <<"a">>, <<"a", "/">>, <<" ", "a">>, <<"a", " ", "/">>,
          <<"b">>, <<"b", "/", "/">> }

\* the input files of the runs with workers: no url, one url, the same url
\* twice, two spellings of one url, two different urls
RunInputs == { <<>>,
               << <<"a">> >>,
               << <<"a">>, <<"a">> >>,
               << <<"a">>, <<"a", "/">> >>,
               << <<"a">>, <<"b">> >> }

\* a csv file with a url column: "absent", "ok" (readable) or "corrupt"
\* (pd.read_csv raises on it)
CsvFile(st, rows) == [st |-> st, rows |-> rows]

----------------------------------------------------------------------------
(* load_urls *)

\* mutant of PendingOf: line 503 compares the url itself, not norm_url
PendingOfRaw(input_urls, done_urls) ==
    SelectSeq(input_urls, LAMBDA url : url \notin Range(done_urls))

\* lines 497-504: the input urls whose normalised form is not in the done set
PendingOf(input_urls, done_urls) ==
    SelectSeq(input_urls, LAMBDA url : Normalize(url) \notin Range(done_urls))

\* mutant of DoneUrlsOf: the normalisation of line 492 is left out
DoneUrlsOfRaw(file) == IF file.st = "ok" THEN file.rows ELSE <<>>

\* mutant of DoneUrlsOf: the rows of an unreadable done-file are used
DoneUrlsOfUnreadable(file) ==
    [i \in 1..Len(file.rows) |-> Normalize(file.rows[i])]

\* lines 487-495: the done list; a missing file is skipped, an unreadable one
\* raises in pd.read_csv and leaves done_urls = []
DoneUrlsOf(file) ==
    IF file.st = "ok"
    THEN [i \in 1..Len(file.rows) |-> Normalize(file.rows[i])]
    ELSE <<>>

\* load_urls() -> (urls_to_process, done_urls)
load_urls(input, done) ==
    IF input.st # "ok"
    THEN [urls_to_process |-> <<>>, done_urls |-> <<>>]
    ELSE [urls_to_process |-> PendingOf(input.rows, DoneUrlsOf(done)),
          done_urls |-> DoneUrlsOf(done)]

----------------------------------------------------------------------------
(* The rate limiter: calculate_dynamic_wait_time.  Times are counted in    *)
(* ticks of 1 / 500000 s, so that follower_count / 500000 seconds is       *)
(* follower_count ticks and post_count / 5000 seconds is 100 * post_count  *)
(* ticks, and the arithmetic is exact.                                     *)

FollowerDivisor == 500000

PostDivisor == 5000

\* 1.0 second, in ticks
OneSecond == FollowerDivisor

Min(a, b) == IF a <= b THEN a ELSE b

\* profile_data: None, a body without data.user, or a snapshot with the two
\* counts (a count that is missing is read as 0 by .get("count", 0))
NoProfile == [kind |-> "none", followers |-> 0, posts |-> 0]

NoUserProfile == [kind |-> "nouser", followers |-> 0, posts |-> 0]

UserProfile(f, p) == [kind |-> "user", followers |-> f, posts |-> p]

\* line 181: (follower_count / 500000) + (post_count / 5000)
Complexity(follower_count, post_count) ==
    follower_count + post_count * (FollowerDivisor \div PostDivisor)

\* mutant of AdditionalWait: the clamp of line 183 left out
AdditionalWaitUnclamped(complexity) == complexity

\* line 183: min(complexity, 1.0)
AdditionalWait(complexity) == Min(complexity, OneSecond)

\* the part of the wait that does not depend on the random draw
DeterministicWait(profile_data) ==
    IF profile_data.kind = "user"
    THEN AdditionalWait(Complexity(profile_data.followers, profile_data.posts))
    ELSE 0

\* calculate_dynamic_wait_time(profile_data), for the draw base
calculate_dynamic_wait_time(profile_data, base) ==
    IF profile_data.kind = "user"
    THEN base + AdditionalWait(Complexity(profile_data.followers, profile_data.posts))
    ELSE base

\* the counts and the draws of the model
FollowerCounts ==
    {1} \cup {k * (FollowerDivisor \div MaxFollowerSteps) : k \in 0..(2 * MaxFollowerSteps)}

PostCounts ==
    {1} \cup {k * (PostDivisor \div MaxPostSteps) : k \in 0..(2 * MaxPostSteps)}

BaseDraws == {OneSecond + k * (OneSecond \div MaxBaseSteps) : k \in 0..MaxBaseSteps}

ProfileData ==
    {NoProfile, NoUserProfile}
    \cup {UserProfile(f, p) : f \in FollowerCounts, p \in PostCounts}

----------------------------------------------------------------------------
(* The worker pool *)

MAX_WORKERS == 3

Workers == 1..MAX_WORKERS

NoUrl == <<>>

\* what scrape_profile returns: profile_info is None, a public or a private
\* profile snapshot; reel_info is None or timeline data
ScrapeResult(profile, reel) == [profile_info |-> profile, has_reel |-> reel]

NoResult == ScrapeResult("none", FALSE)

ScrapeResults == {ScrapeResult(p, r) : p \in {"none", "public", "private"},
                                       r \in BOOLEAN}

\* mutant of is_private_profile: a missing snapshot is not taken as private
is_private_profileNoneAsPublic(profile_data) == profile_data = "private"

\* is_private_profile(profile_data)
is_private_profile(profile_data) ==
    IF profile_data = "none" THEN TRUE ELSE profile_data = "private"

ZeroStats == [total |-> 0, saved |-> 0, failed |-> 0, pictures_downloaded |-> 0]

\* no mutation of the shared state begun
ZeroIntended == [saved |-> 0, failed |-> 0, pictures_downloaded |-> 0]

\* the state of a process that is not running
NotRunning ==
    /\ urls_to_process = <<>>
    /\ done_loaded = <<>>
    /\ url_queue = <<>>
    /\ unfinished = 0
    /\ stats = ZeroStats
    /\ no_response_links = <<>>
    /\ newly_completed_urls = <<>>
    /\ done_urls_lock = 0
    /\ pc = [w \in Workers |-> "idle"]
    /\ cur = [w \in Workers |-> NoUrl]
    /\ data = [w \in Workers |-> NoResult]
    /\ claimedBy = <<>>
    /\ stats_lock = 0
    /\ count_read = [w \in Workers |-> 0]
    /\ rows_read = [w \in Workers |-> <<>>]
    /\ intended = ZeroIntended
    /\ waited = [w \in Workers |-> FALSE]

\* the run part of a specification that has no runs
NoRuns ==
    /\ userInfo_json = {}
    /\ inputFile = CsvFile("absent", <<>>)
    /\ doneFile = CsvFile("absent", <<>>)
    /\ phase = "idle"
    /\ run = 0
    /\ originalInput = <<>>
    /\ everDone = {}
    /\ doneAtStart = {}
    /\ NotRunning

\* the rate limiter part of a specification without a wait
NoWaits ==
    /\ wait_profile = NoProfile
    /\ base_wait = OneSecond
    /\ wait_time = -1

\* the spinner part of a specification without a spinner
NoSpinner ==
    /\ spinner_active = FALSE
    /\ spinner_alive = [w \in Workers |-> FALSE]
    /\ spos = [w \in Workers |-> "out"]
    /\ scrapes = [w \in Workers |-> 0]

\* the scroll part of a specification without a scroll loop
NoScroll ==
    /\ spc = "nav"
    /\ scroll_attempts = 0
    /\ posts_before = 0
    /\ no_new_posts_count = 0
    /\ profile_info = "none"
    /\ netlog = <<>>
    /\ cursor = 0
    /\ returned = [profile_info |-> "none", reel_info |-> NoData]
    /\ nEvals = 0
    /\ nLoadMore = 0
    /\ observed = -1
    /\ stagnantEvals = 0
    /\ reason = "running"
    /\ raisedAt = "no"

\* the merge part of a specification that merges nothing
NoMerges ==
    /\ acc = NoData
    /\ prevAcc = NoData
    /\ lastPage = NoData
    /\ seenOrder = <<>>
    /\ nMerges = 0
    /\ remerged = FALSE

----------------------------------------------------------------------------
(* SpecMerge: one Accumulation, fed with timeline pages *)

\* the ids of s in order of first occurrence
FirstOccurrences(s) ==
    LET keep == {i \in 1..Len(s) : \A j \in 1..(i - 1) : s[j] # s[i]}
        F[i \in 0..Len(s)] ==
            IF i = 0 THEN <<>>
            ELSE IF i \in keep THEN Append(F[i - 1], s[i]) ELSE F[i - 1]
    IN F[Len(s)]

InitMerge == NoMerges /\ NoRuns /\ NoScroll /\ NoWaits /\ NoSpinner

\* one timeline response of scrape_profile: lines 247-251
MergePage(p) ==
    /\ nMerges < MaxMerges
    /\ acc' = merge_timeline_data(acc, p)
    /\ prevAcc' = acc
    /\ lastPage' = p
    /\ seenOrder' = FirstOccurrences(seenOrder \o p.edges)
    /\ nMerges' = nMerges + 1
    /\ remerged' = FALSE
    /\ UNCHANGED <<runVars, scrollVars>>

\* the page of the last merge arrives once more
MergeAgain ==
    /\ nMerges >= 1
    /\ nMerges < MaxMerges
    /\ acc' = merge_timeline_data(acc, lastPage)
    /\ prevAcc' = acc
    /\ remerged' = TRUE
    /\ nMerges' = nMerges + 1
    /\ UNCHANGED <<lastPage, seenOrder, runVars, scrollVars>>

NextMerge ==
    \/ \E p \in TimelinePages : MergePage(p)
    \/ MergeAgain

SpecMerge == InitMerge /\ [][NextMerge]_vars

----------------------------------------------------------------------------
(* C1: the accumulated edge list holds exactly one record per distinct id  *)
(* seen across all merged pages: no id twice, and as many records as       *)
(* distinct ids -- also when one page holds the same id twice.             *)
C1_OneRecordPerId ==
    acc.kind = "page" =>
        /\ NoDup(acc.edges)
        /\ Len(acc.edges) = Cardinality(Range(seenOrder))

(* C2: merging the same page a second time leaves the accumulation         *)
(* (records, order, count) as it was after the first merge.                *)
C2_MergeIdempotent == remerged => acc = prevAcc

C2_Witness ==
    /\ remerged
    /\ prevAcc.kind = "page" /\ Len(prevAcc.edges) >= 3
    /\ Len(lastPage.edges) = 2
    /\ lastPage.edges # prevAcc.edges

(* C3: the accumulated ids are in first-seen order (a before b iff a first *)
(* arrived before b), a merge keeps what was accumulated as a prefix, and  *)
(* [1,2] then [2,3] gives [1,2,3].                                         *)
C3_FirstSeenOrder ==
    acc.kind = "page" =>
        /\ Range(acc.edges) = Range(seenOrder)
        /\ \A a, b \in Range(acc.edges) :
              a # b => (Pos(acc.edges, a) < Pos(acc.edges, b)
                          <=> Pos(seenOrder, a) < Pos(seenOrder, b))
        /\ prevAcc.kind = "page" => IsPrefix(prevAcc.edges, acc.edges)
        /\ (prevAcc = TimelinePage(<<1, 2>>) /\ lastPage = TimelinePage(<<2, 3>>))
              => acc = TimelinePage(<<1, 2, 3>>)

C3_Witness ==
    /\ prevAcc = TimelinePage(<<1, 2>>)
    /\ lastPage = TimelinePage(<<2, 3>>)
    /\ ~remerged
    /\ acc = TimelinePage(<<1, 2, 3>>)

----------------------------------------------------------------------------
(* main *)

\* lines 575-577: every url of the pending list is put on the queue, in order
SeedQueue(urls) == urls

\* mutant of NothingPending: main goes on with an empty pending list
NothingPendingIgnored(urls) == FALSE

\* main, line 569: len(urls_to_process) == 0
NothingPending(urls) == Len(urls) = 0

\* main, lines 543-590: load the pending list, seed the queue, start the
\* workers; with nothing pending main returns at once
MainStart ==
    /\ phase \in {"idle", "finished", "crashed"}
    /\ run < MaxRuns
    /\ LET loaded == load_urls(inputFile, doneFile)
           pending == loaded.urls_to_process
       IN /\ urls_to_process' = pending
          /\ done_loaded' = loaded.done_urls
          /\ stats' = [ZeroStats EXCEPT !.total = Len(pending)]
          /\ IF NothingPending(pending)
             THEN /\ phase' = "finished"
                  /\ url_queue' = <<>>
                  /\ pc' = [w \in Workers |-> "idle"]
             ELSE /\ phase' = "running"
                  /\ url_queue' = SeedQueue(pending)
                  /\ pc' = [w \in Workers |-> "start"]
          /\ unfinished' = Len(url_queue')
    /\ run' = run + 1
    /\ no_response_links' = <<>>
    /\ newly_completed_urls' = <<>>
    /\ done_urls_lock' = 0
    /\ cur' = [w \in Workers |-> NoUrl]
    /\ data' = [w \in Workers |-> NoResult]
    /\ doneAtStart' = everDone
    /\ claimedBy' = <<>>
    /\ stats_lock' = 0
    /\ count_read' = [w \in Workers |-> 0]
    /\ rows_read' = [w \in Workers |-> <<>>]
    /\ intended' = ZeroIntended
    /\ waited' = [w \in Workers |-> FALSE]
    /\ UNCHANGED <<fileVars, originalInput, everDone, waitVars,
                   userInfo_json, spinVars, mergeVars, scrollVars>>

\* mutant of JoinReturns: main does not wait for the tasks
JoinReturnsAtOnce(unfinished_tasks) == TRUE

\* line 592: url_queue.join() blocks until every put has had its task_done
JoinReturns(unfinished_tasks) == unfinished_tasks = 0

\* main, lines 592-605: url_queue.join() returns once every task is done;
\* main writes the failure list and the summary and the process ends
MainJoin ==
    /\ phase = "running"
    /\ JoinReturns(unfinished)
    /\ phase' = "finished"
    /\ UNCHANGED <<fileVars, run, urls_to_process, done_loaded, url_queue,
                   unfinished, stats, no_response_links, newly_completed_urls,
                   workerVars, histVars, lockVars, waitVars,
                   itemVars, spinVars, mergeVars, scrollVars>>

\* the process is stopped from outside at any point of a run: the files stay
\* as they are, everything else is lost
Crash ==
    /\ phase = "running"
    /\ phase' = "crashed"
    /\ urls_to_process' = <<>>
    /\ done_loaded' = <<>>
    /\ url_queue' = <<>>
    /\ unfinished' = 0
    /\ stats' = ZeroStats
    /\ no_response_links' = <<>>
    /\ newly_completed_urls' = <<>>
    /\ done_urls_lock' = 0
    /\ pc' = [w \in Workers |-> "idle"]
    /\ cur' = [w \in Workers |-> NoUrl]
    /\ data' = [w \in Workers |-> NoResult]
    /\ claimedBy' = <<>>
    /\ stats_lock' = 0
    /\ count_read' = [w \in Workers |-> 0]
    /\ rows_read' = [w \in Workers |-> <<>>]
    /\ intended' = ZeroIntended
    /\ waited' = [w \in Workers |-> FALSE]
    /\ UNCHANGED <<fileVars, run, originalInput, everDone, doneAtStart,
                   waitVars,
                   userInfo_json, spinVars, mergeVars, scrollVars>>

----------------------------------------------------------------------------
(* worker_thread and save_data, one action per step of a worker *)

Goto(w, label) == pc' = [pc EXCEPT ![w] = label]

\* mutant of LockFree: `with lock:` does not wait
LockFreeAlways(holder) == TRUE

\* `with lock:` is entered when no thread holds the lock
LockFree(holder) == holder = 0

\* save_data, line 326: a private profile, or no data at all
IsFailure(d) ==
    \/ is_private_profile(d.profile_info)
    \/ ~(d.profile_info # "none" \/ d.has_reel)

\* lines 327-329 and 460-462: with stats_lock, record a failure
RecordFailure(url) ==
    /\ no_response_links' = Append(no_response_links, url)
    /\ stats' = [stats EXCEPT !.failed = @ + 1]

\* lines 436-441: configure_driver gives a driver, or None and the worker returns
WorkerInit(w) ==
    /\ phase = "running" /\ pc[w] = "start"
    /\ \E ok \in BOOLEAN : Goto(w, IF ok THEN "loop" ELSE "exit")
    /\ UNCHANGED <<fileVars, mainVars, done_urls_lock, cur, data, histVars, lockVars, waitVars,
                   itemVars, spinVars, mergeVars, scrollVars>>

\* url_queue.get(block=False) of a non-empty queue
QueueGet(w) ==
    /\ cur' = [cur EXCEPT ![w] = Head(url_queue)]
    /\ url_queue' = Tail(url_queue)

\* lines 443-447: take the next url, or leave the loop when the queue is empty
Claim(w) ==
    /\ phase = "running" /\ pc[w] = "loop"
    /\ IF url_queue = <<>>
       THEN /\ Goto(w, "exit")
            /\ UNCHANGED <<url_queue, cur, claimedBy>>
       ELSE /\ QueueGet(w)
            /\ claimedBy' = Append(claimedBy, w)
            /\ Goto(w, "scrape")
    /\ waited' = [waited EXCEPT ![w] = FALSE]
    /\ UNCHANGED <<fileVars, phase, run, urls_to_process, done_loaded, unfinished,
                   stats, no_response_links, newly_completed_urls,
                   done_urls_lock, data, originalInput, everDone, doneAtStart,
                   lockVars, waitVars,
                   userInfo_json, spinVars, mergeVars, scrollVars>>

\* line 453: scrape_profile returns its data (it catches what it raises)
Scrape(w) ==
    /\ phase = "running" /\ pc[w] = "scrape"
    /\ \E d \in ScrapeResults : data' = [data EXCEPT ![w] = d]
    /\ Goto(w, "save")
    /\ UNCHANGED <<fileVars, mainVars, done_urls_lock, cur, histVars, lockVars, waitVars,
                   itemVars, spinVars, mergeVars, scrollVars>>

\* save_data, lines 326-331: a private profile or no data is a failure
SaveCheck(w) ==
    /\ phase = "running" /\ pc[w] = "save"
    /\ IF IsFailure(data[w])
       THEN /\ RecordFailure(cur[w])
            /\ Goto(w, "update")
       ELSE /\ Goto(w, "write_profile")
            /\ UNCHANGED <<stats, no_response_links>>
    /\ UNCHANGED <<fileVars, phase, run, urls_to_process, done_loaded, url_queue,
                   unfinished, newly_completed_urls, done_urls_lock, cur, data,
                   histVars, lockVars, waitVars,
                   itemVars, spinVars, mergeVars, scrollVars>>

\* mutant of WriteUserInfo: the snapshot is not written
WriteUserInfoSkipped(files, url) == files

\* save_data, lines 338-339: output/<username>/userInfo.json is written
WriteUserInfo(files, url) == files \cup {url}

\* save_data, lines 333-347: userInfo.json is written and counted, the
\* picture is downloaded or not; makedirs / open may raise
WriteProfile(w) ==
    /\ phase = "running" /\ pc[w] = "write_profile"
    /\ \/ /\ Goto(w, "except")
          /\ UNCHANGED <<stats, userInfo_json>>
       \/ /\ userInfo_json' = WriteUserInfo(userInfo_json, cur[w])
          /\ \E pic \in BOOLEAN :
                stats' = [stats EXCEPT
                            !.saved = @ + 1,
                            !.pictures_downloaded = IF pic THEN @ + 1 ELSE @]
          /\ Goto(w, "write_timeline")
    /\ UNCHANGED <<fileVars, phase, run, urls_to_process, done_loaded, url_queue,
                   unfinished, no_response_links, newly_completed_urls,
                   done_urls_lock, cur, data, histVars, lockVars, waitVars,
                   waited, spinVars, mergeVars, scrollVars>>

\* save_data, lines 349-351: postInfo.json is written when there is timeline
\* data; open / json.dump may raise
WriteTimeline(w) ==
    /\ phase = "running" /\ pc[w] = "write_timeline"
    /\ \/ /\ data[w].has_reel
          /\ Goto(w, "except")
       \/ Goto(w, "wait")
    /\ UNCHANGED <<fileVars, mainVars, done_urls_lock, cur, data, histVars, lockVars, waitVars,
                   itemVars, spinVars, mergeVars, scrollVars>>

\* save_data, lines 353-354: the rate limiter's wait
Wait(w) ==
    /\ phase = "running" /\ pc[w] = "wait"
    /\ waited' = [waited EXCEPT ![w] = TRUE]
    /\ Goto(w, "done_append")
    /\ UNCHANGED <<fileVars, mainVars, done_urls_lock, cur, data, histVars, lockVars, waitVars,
                   userInfo_json, spinVars, mergeVars, scrollVars>>

\* save_data, lines 357-358 and save_url_to_done_file, lines 366-368: take
\* done_urls_lock, append to the list, create the done-file if it is missing
DoneAppend(w) ==
    /\ phase = "running" /\ pc[w] = "done_append"
    /\ LockFree(done_urls_lock)
    /\ done_urls_lock' = w
    /\ newly_completed_urls' = Append(newly_completed_urls, cur[w])
    /\ doneFile' = IF doneFile.st = "absent" THEN CsvFile("ok", <<>>) ELSE doneFile
    /\ Goto(w, "done_write")
    /\ UNCHANGED <<inputFile, phase, run, urls_to_process, done_loaded, url_queue,
                   unfinished, stats, no_response_links, cur, data, histVars,
                   lockVars, waitVars,
                   itemVars, spinVars, mergeVars, scrollVars>>

\* mutant of WriteDoneRow: the done-file is opened with 'w'
WriteDoneRowOverwrites(file, url) == CsvFile(file.st, <<url>>)

\* save_url_to_done_file, lines 370-371: append the url to the done-file
WriteDoneRow(file, url) == CsvFile(file.st, Append(file.rows, url))

DoneWrite(w) ==
    /\ phase = "running" /\ pc[w] = "done_write"
    /\ doneFile' = WriteDoneRow(doneFile, cur[w])
    /\ everDone' = everDone \cup {cur[w]}
    /\ Goto(w, "input_remove")
    /\ UNCHANGED <<inputFile, mainVars, done_urls_lock, cur, data, originalInput,
                   doneAtStart, claimedBy, lockVars, waitVars,
                   itemVars, spinVars, mergeVars, scrollVars>>

\* remove_url_from_input_file, lines 383-393: the input file is rewritten
\* without the rows equal to url (an unreadable file is left as it is);
\* then done_urls_lock is released
InputRemove(w) ==
    /\ phase = "running" /\ pc[w] = "input_remove"
    /\ inputFile' = IF inputFile.st = "ok"
                    THEN CsvFile("ok", SelectSeq(inputFile.rows,
                                                 LAMBDA u : u # cur[w]))
                    ELSE inputFile
    /\ done_urls_lock' = 0
    /\ Goto(w, "update")
    /\ UNCHANGED <<doneFile, mainVars, cur, data, histVars, lockVars, waitVars,
                   itemVars, spinVars, mergeVars, scrollVars>>

\* mutant of Except: the exception of an item ends the worker
ExceptEndsWorker(w) ==
    /\ phase = "running" /\ pc[w] = "except"
    /\ RecordFailure(cur[w])
    /\ Goto(w, "exit")
    /\ UNCHANGED <<fileVars, phase, run, urls_to_process, done_loaded, url_queue,
                   unfinished, newly_completed_urls, done_urls_lock, cur, data,
                   histVars, lockVars, waitVars,
                   itemVars, spinVars, mergeVars, scrollVars>>

\* worker_thread, lines 458-463: an exception of the item is recorded as a failure
Except(w) ==
    /\ phase = "running" /\ pc[w] = "except"
    /\ RecordFailure(cur[w])
    /\ Goto(w, "update")
    /\ UNCHANGED <<fileVars, phase, run, urls_to_process, done_loaded, url_queue,
                   unfinished, newly_completed_urls, done_urls_lock, cur, data,
                   histVars, lockVars, waitVars,
                   itemVars, spinVars, mergeVars, scrollVars>>

\* worker_thread, lines 456/463 and 466: the progress bar, then task_done
TaskDone(w) ==
    /\ phase = "running" /\ pc[w] = "update"
    /\ unfinished' = unfinished - 1
    /\ cur' = [cur EXCEPT ![w] = NoUrl]
    /\ data' = [data EXCEPT ![w] = NoResult]
    /\ Goto(w, "loop")
    /\ UNCHANGED <<fileVars, phase, run, urls_to_process, done_loaded, url_queue,
                   stats, no_response_links, newly_completed_urls,
                   done_urls_lock, histVars, lockVars, waitVars,
                   itemVars, spinVars, mergeVars, scrollVars>>

WorkerStep(w) ==
    \/ WorkerInit(w)
    \/ Claim(w)
    \/ Scrape(w)
    \/ SaveCheck(w)
    \/ WriteProfile(w)
    \/ WriteTimeline(w)
    \/ Wait(w)
    \/ DoneAppend(w)
    \/ DoneWrite(w)
    \/ InputRemove(w)
    \/ Except(w)
    \/ TaskDone(w)

----------------------------------------------------------------------------
(* SpecLocks: the workers with the statements inside `with stats_lock:`    *)
(* and `with done_urls_lock:` taken one at a time.  stats[k] += 1 is a     *)
(* read of the counter followed by a write of the value read plus one; the *)
(* rewrite of the input file is a read of its rows followed by a write of  *)
(* the rows kept.  The other steps of a worker are those of SpecRun.       *)

Begun(kind) == intended' = [intended EXCEPT ![kind] = @ + 1]

\* save_data, line 326: the test alone
JudgeData(w) ==
    /\ phase = "running" /\ pc[w] = "save"
    /\ Goto(w, IF IsFailure(data[w]) THEN "record_failure" ELSE "write_profile")
    /\ UNCHANGED <<fileVars, mainVars, done_urls_lock, cur, data, histVars,
                   lockVars, waitVars,
                   itemVars, spinVars, mergeVars, scrollVars>>

\* lines 327-329 and 460-462: enter stats_lock, append the url to
\* no_response_links, read stats["failed"]
FailureEnter(w) ==
    /\ phase = "running" /\ pc[w] \in {"record_failure", "except"}
    /\ LockFree(stats_lock)
    /\ stats_lock' = w
    /\ no_response_links' = Append(no_response_links, cur[w])
    /\ count_read' = [count_read EXCEPT ![w] = stats.failed]
    /\ Begun("failed")
    /\ Goto(w, "failed_write")
    /\ UNCHANGED <<fileVars, phase, run, urls_to_process, done_loaded, url_queue,
                   unfinished, stats, newly_completed_urls, done_urls_lock, cur,
                   data, histVars, rows_read, waitVars,
                   itemVars, spinVars, mergeVars, scrollVars>>

\* lines 340-341 and 346-347: enter stats_lock, read stats[counter]
CounterEnter(w, from, counter, to) ==
    /\ phase = "running" /\ pc[w] = from
    /\ LockFree(stats_lock)
    /\ stats_lock' = w
    /\ count_read' = [count_read EXCEPT ![w] = stats[counter]]
    /\ Begun(counter)
    /\ Goto(w, to)
    /\ UNCHANGED <<fileVars, mainVars, done_urls_lock, cur, data, histVars,
                   rows_read, waitVars,
                   itemVars, spinVars, mergeVars, scrollVars>>

\* lines 329, 341, 347, 462: write the value read plus one, leave stats_lock
CounterWrite(w, from, counter, to) ==
    /\ phase = "running" /\ pc[w] = from
    /\ stats' = [stats EXCEPT ![counter] = count_read[w] + 1]
    /\ stats_lock' = 0
    /\ count_read' = [count_read EXCEPT ![w] = 0]
    /\ Goto(w, to)
    /\ UNCHANGED <<fileVars, phase, run, urls_to_process, done_loaded, url_queue,
                   unfinished, no_response_links, newly_completed_urls,
                   done_urls_lock, cur, data, histVars, rows_read,
                   intended, waitVars,
                   itemVars, spinVars, mergeVars, scrollVars>>

\* save_data, lines 333-339: userInfo.json is written; makedirs / open may raise
ProfileWritten(w) ==
    /\ phase = "running" /\ pc[w] = "write_profile"
    /\ \E raised \in BOOLEAN :
          /\ Goto(w, IF raised THEN "except" ELSE "saved_lock")
          /\ userInfo_json' = IF raised THEN userInfo_json
                              ELSE WriteUserInfo(userInfo_json, cur[w])
    /\ UNCHANGED <<fileVars, mainVars, done_urls_lock, cur, data, histVars,
                   lockVars, waitVars,
                   waited, spinVars, mergeVars, scrollVars>>

\* save_data, line 345: download_profile_picture returns True or False
PictureDownload(w) ==
    /\ phase = "running" /\ pc[w] = "picture"
    /\ \E ok \in BOOLEAN : Goto(w, IF ok THEN "pictures_lock" ELSE "write_timeline")
    /\ UNCHANGED <<fileVars, mainVars, done_urls_lock, cur, data, histVars,
                   lockVars, waitVars,
                   itemVars, spinVars, mergeVars, scrollVars>>

\* remove_url_from_input_file, line 384: pd.read_csv(INPUT_FILE)
InputRead(w) ==
    /\ phase = "running" /\ pc[w] = "input_remove"
    /\ rows_read' = [rows_read EXCEPT ![w] = inputFile.rows]
    /\ Goto(w, "input_write")
    /\ UNCHANGED <<fileVars, mainVars, done_urls_lock, cur, data, histVars,
                   stats_lock, count_read, intended, waitVars,
                   itemVars, spinVars, mergeVars, scrollVars>>

\* remove_url_from_input_file, lines 386-388: the rows read that differ from
\* url are written back; save_data then leaves done_urls_lock
InputWrite(w) ==
    /\ phase = "running" /\ pc[w] = "input_write"
    /\ inputFile' = CsvFile(inputFile.st,
                            SelectSeq(rows_read[w], LAMBDA u : u # cur[w]))
    /\ done_urls_lock' = 0
    /\ rows_read' = [rows_read EXCEPT ![w] = <<>>]
    /\ Goto(w, "update")
    /\ UNCHANGED <<doneFile, mainVars, cur, data, histVars, stats_lock,
                   count_read, intended, waitVars,
                   itemVars, spinVars, mergeVars, scrollVars>>

LockStep(w) ==
    \/ WorkerInit(w)
    \/ Claim(w)
    \/ Scrape(w)
    \/ JudgeData(w)
    \/ FailureEnter(w)
    \/ CounterWrite(w, "failed_write", "failed", "update")
    \/ ProfileWritten(w)
    \/ CounterEnter(w, "saved_lock", "saved", "saved_write")
    \/ CounterWrite(w, "saved_write", "saved", "picture")
    \/ PictureDownload(w)
    \/ CounterEnter(w, "pictures_lock", "pictures_downloaded", "pictures_write")
    \/ CounterWrite(w, "pictures_write", "pictures_downloaded", "write_timeline")
    \/ WriteTimeline(w)
    \/ Wait(w)
    \/ DoneAppend(w)
    \/ DoneWrite(w)
    \/ InputRead(w)
    \/ InputWrite(w)
    \/ TaskDone(w)

----------------------------------------------------------------------------
(* SpecLoad: main's load and seeding on every input file and done-file *)

InitLoad ==
    /\ NoMerges /\ NoScroll /\ NoWaits /\ NoSpinner
    /\ userInfo_json = {}
    /\ \E st \in {"ok", "corrupt"}, rows \in SeqsUpTo(Urls, MaxInputLen) :
          /\ inputFile = CsvFile(st, rows)
          /\ originalInput = rows
    /\ \E st \in {"absent", "ok", "corrupt"}, rows \in SeqsUpTo(Urls, MaxDoneLen) :
          /\ st = "absent" => rows = <<>>
          /\ doneFile = CsvFile(st, rows)
          /\ everDone = Range(rows)
    /\ doneAtStart = {}
    /\ phase = "idle"
    /\ run = 0
    /\ NotRunning

NextLoad == MainStart

SpecLoad == InitLoad /\ [][NextLoad]_vars

----------------------------------------------------------------------------
(* SpecRun: runs of main on an input file, each run ended by main's return *)
(* or by a stop of the process, the next run started on the files left     *)

InitRun ==
    /\ NoMerges /\ NoScroll /\ NoWaits /\ NoSpinner
    /\ userInfo_json = {}
    /\ \E rows \in RunInputs :
          /\ inputFile = CsvFile("ok", rows)
          /\ originalInput = rows
    /\ doneFile = CsvFile("absent", <<>>)
    /\ everDone = {}
    /\ doneAtStart = {}
    /\ phase = "idle"
    /\ run = 0
    /\ NotRunning

NextRun ==
    \/ MainStart
    \/ MainJoin
    \/ Crash
    \/ \E w \in Workers : WorkerStep(w)

SpecRun == InitRun /\ [][NextRun]_vars

----------------------------------------------------------------------------
(* SpecFair: the runs of main that are not stopped from outside, under the *)
(* fairness of the thread scheduler: a thread that can take a step (main   *)
(* at the join, a worker anywhere in worker_thread) eventually takes one   *)

NextFair ==
    \/ MainStart
    \/ MainJoin
    \/ \E w \in Workers : WorkerStep(w)

Fairness ==
    /\ WF_vars(MainJoin)
    /\ \A w \in Workers : WF_vars(WorkerStep(w))

SpecFair == InitRun /\ [][NextFair]_vars /\ Fairness

----------------------------------------------------------------------------
(* SpecLocks: runs of main to their end, the workers taking the statements *)
(* inside the locks one at a time                                          *)

NextLocks ==
    \/ MainStart
    \/ MainJoin
    \/ \E w \in Workers : LockStep(w)

SpecLocks == InitRun /\ [][NextLocks]_vars

----------------------------------------------------------------------------
(* Claims about load_urls, the done-file and the queue *)

NoDupNorm(urls) ==
    \A i, j \in 1..Len(urls) : i # j => Normalize(urls[i]) # Normalize(urls[j])

\* the completed set of a readable or missing done-file
CompletedSet == NormSet(doneFile.rows)

(* C4: for every input list and done-list the pending list of load_urls is *)
(* disjoint from the completed set (identifiers compared normalised) and   *)
(* pending and completed together cover the input list.                    *)
C4_PendingDisjointCovers ==
    (run >= 1 /\ inputFile.st = "ok" /\ doneFile.st # "corrupt") =>
        /\ Range(done_loaded) = CompletedSet
        /\ NormSet(urls_to_process) \cap CompletedSet = {}
        /\ \A u \in Range(inputFile.rows) :
              Normalize(u) \in NormSet(urls_to_process) \cup CompletedSet

C4_Witness ==
    /\ run >= 1
    /\ inputFile = CsvFile("ok", << <<"a", "/">>, <<"b">> >>)
    /\ doneFile = CsvFile("ok", << <<" ", "a">> >>)
    /\ urls_to_process = << <<"b">> >>

(* C5: an item whose identifier was appended to the done-file is never     *)
(* seeded into the queue of a later run, whatever point the earlier runs   *)
(* were stopped at; with distinct items, a run queues exactly the items    *)
(* of the original input that are not done (k of n done: n - k queued).    *)
C5_DoneNeverRequeued ==
    /\ \A i \in 1..Len(urls_to_process) :
          Normalize(urls_to_process[i]) \notin {Normalize(d) : d \in doneAtStart}
    /\ \A i \in 1..Len(url_queue) : url_queue[i] \notin doneAtStart
    /\ (phase \in {"running", "finished"} /\ NoDupNorm(originalInput)) =>
          /\ urls_to_process =
                SelectSeq(originalInput, LAMBDA u : u \notin doneAtStart)
          /\ Len(urls_to_process) = Len(originalInput) - Cardinality(doneAtStart)

C5_Witness ==
    /\ run = 2 /\ phase = "running"
    /\ originalInput = << <<"a">>, <<"b">> >>
    /\ inputFile.rows = originalInput
    /\ doneAtStart = { <<"a">> }
    /\ url_queue = << <<"b">> >>

(* C6: two input entries that are equal after normalisation (or identical) *)
(* give at most one entry of the pending list and of the seeded queue, so  *)
(* no identifier is claimed for harvesting twice in a run.                 *)
C6_NoCosmeticDuplicates ==
    /\ NoDupNorm(urls_to_process)
    /\ NoDupNorm(url_queue)

(* C7: every identifier occurs at most once in the done-file, over any     *)
(* number of runs and any interleaving of the workers.                     *)
C7_DoneFileNoDuplicate == NoDup(doneFile.rows)

\* the workers that hold a claimed url
Busy == {w \in Workers : cur[w] # NoUrl}

\* the queue hands every seeded entry to one worker and takes none back:
\* the entries not claimed yet are the rest of the seeded list, and the
\* claimed, unfinished entries are held by as many workers
QueueHandsOutOnce ==
    phase = "running" =>
        /\ Len(claimedBy) + Len(url_queue) = Len(urls_to_process)
        /\ url_queue = SubSeq(urls_to_process, Len(claimedBy) + 1,
                              Len(urls_to_process))
        /\ Cardinality(Busy) = Len(claimedBy) - (Len(urls_to_process) - unfinished)

(* C8: every seeded entry is claimed by exactly one worker, none is put    *)
(* back on the queue, and no two workers process the same identifier at    *)
(* the same time.                                                          *)
C8_ExclusiveClaim ==
    /\ QueueHandsOutOnce
    /\ \A v, w \in Busy : v # w => cur[v] # cur[w]

----------------------------------------------------------------------------
(* The scroll controller: scrape_profile for one profile *)

MAX_SCROLL_ATTEMPTS == 15

target_posts == 50

min_posts == 30

max_no_new == 3

\* a parsed response body: data has the key 'user' (a public or private
\* profile) or not, and the timeline key (with data or with no edges) or not
Body(user, timeline) == [user |-> user, timeline |-> timeline]

\* an entry of the performance log: not a graphql/query response ("other"),
\* one whose body cannot be fetched or parsed ("raise"), or one with a body
Event(kind, body) == [kind |-> kind, body |-> body]

OtherEvent == Event("other", Body("none", NoData))

RaisingEvent == Event("raise", Body("none", NoData))

\* the k-th timeline page the server sends: PageSize fresh ids
ScrollPage(k) == TimelinePage([i \in 1..PageSize |-> (k - 1) * PageSize + i])

\* the events the browser can capture when the server has sent c pages
EventsAt(c) ==
    {OtherEvent, RaisingEvent,
     Event("body", Body("none", NoData)),
     Event("body", Body("public", NoData)),
     Event("body", Body("private", NoData)),
     Event("body", Body("none", BadShape))}
    \cup (IF c < NPages
          THEN {Event("body", Body("none", ScrollPage(c + 1))),
                Event("body", Body("public", ScrollPage(c + 1)))}
          ELSE {})

IsNewPage(ev) == ev.kind = "body" /\ ev.body.timeline.kind = "page"

\* the sequences of at most n events captured from cursor c on
RECURSIVE Batches(_, _)
Batches(c, n) ==
    IF n = 0 THEN {<<>>}
    ELSE {<<>>} \cup
         UNION {{<<e>> \o r : r \in Batches(IF IsNewPage(e) THEN c + 1 ELSE c, n - 1)}
                : e \in EventsAt(c)}

NewPages(batch) == Cardinality({i \in 1..Len(batch) : IsNewPage(batch[i])})

\* process_graphql_response(response_body)
process_graphql_response(response_body) ==
    [profile_info |-> response_body.user,
     reel_info |-> response_body.timeline]

\* scrape_profile, lines 232-253: one response of the log
HandleResponse(combined_data, response) ==
    IF response.kind # "body" THEN combined_data
    ELSE LET new_data == process_graphql_response(response.body)
         IN [profile_info |-> IF new_data.profile_info # "none"
                              THEN new_data.profile_info
                              ELSE combined_data.profile_info,
             reel_info |-> IF Truthy(new_data.reel_info)
                           THEN merge_timeline_data(combined_data.reel_info,
                                                    new_data.reel_info)
                           ELSE combined_data.reel_info]

\* scrape_profile, line 231: for response in responses
RECURSIVE HandleResponses(_, _)
HandleResponses(combined_data, responses) ==
    IF responses = <<>> THEN combined_data
    ELSE HandleResponses(HandleResponse(combined_data, Head(responses)),
                         Tail(responses))

\* mutant of LoopCondition: one iteration too many
LoopConditionOffByOne(attempts) == attempts <= MAX_SCROLL_ATTEMPTS

\* line 227: while scroll_attempts < MAX_SCROLL_ATTEMPTS
LoopCondition(attempts) == attempts < MAX_SCROLL_ATTEMPTS

\* mutant of TargetReached: > for >=
TargetReachedStrict(posts_after) == posts_after > target_posts

\* line 257: posts_after >= target_posts
TargetReached(posts_after) == posts_after >= target_posts

\* mutant of Stagnated: the floor of line 263 left out
StagnatedNoFloor(count, posts_after) == count >= max_no_new

\* line 263: no_new_posts_count >= 3 and posts_after >= 30
Stagnated(count, posts_after) == count >= max_no_new /\ posts_after >= min_posts

NoneReturned == [profile_info |-> "none", reel_info |-> NoData]

InitScroll == NoMerges /\ NoRuns /\ NoScroll /\ NoWaits /\ NoSpinner

\* lines 206-225: clear the cache, open the url, wait; the page load fills the
\* log.  A driver call that raises here ends scrape_profile in its outer except.
Navigate ==
    /\ spc = "nav"
    /\ \/ /\ spc' = "returned"
          /\ reason' = "fatal"
          /\ raisedAt' = "navigate"
          /\ returned' = NoneReturned
          /\ UNCHANGED <<netlog, cursor>>
       \/ /\ \E batch \in Batches(cursor, MaxBatch) :
                /\ netlog' = batch
                /\ cursor' = cursor + NewPages(batch)
          /\ spc' = IF LoopCondition(scroll_attempts) THEN "eval" ELSE "post"
          /\ UNCHANGED <<reason, raisedAt, returned>>
    /\ UNCHANGED <<scroll_attempts, posts_before, no_new_posts_count, profile_info,
                   nEvals, nLoadMore, observed, stagnantEvals, mergeVars, runVars>>

\* lines 228-269: read the log, classify and merge its events, then apply the
\* termination rules.  get_log raising, or a reel_info without an edges list
\* at line 255, is caught at line 275 and breaks the loop.
Evaluate ==
    /\ spc = "eval"
    /\ nEvals' = nEvals + 1
    /\ \/ /\ spc' = "post"
          /\ reason' = "scroll_error"
          /\ raisedAt' = "get_log"
          /\ UNCHANGED <<acc, profile_info, netlog, posts_before,
                         no_new_posts_count, observed, stagnantEvals>>
       \/ LET combined == HandleResponses(
                              [profile_info |-> profile_info, reel_info |-> acc],
                              netlog)
              posts_after == Len(combined.reel_info.edges)
          IN /\ netlog' = <<>>
             /\ profile_info' = combined.profile_info
             /\ acc' = combined.reel_info
             /\ IF combined.reel_info.kind = "badshape"
                THEN /\ spc' = "post"
                     /\ reason' = "scroll_error"
                     /\ raisedAt' = "edges"
                     /\ UNCHANGED <<posts_before, no_new_posts_count, observed,
                                    stagnantEvals>>
                ELSE /\ observed' = posts_after
                     /\ UNCHANGED raisedAt
                     /\ stagnantEvals' = IF posts_after = observed
                                         THEN stagnantEvals + 1 ELSE 0
                     /\ IF TargetReached(posts_after)
                        THEN /\ spc' = "post"
                             /\ reason' = "target"
                             /\ UNCHANGED <<posts_before, no_new_posts_count>>
                        ELSE IF posts_after = posts_before
                        THEN /\ no_new_posts_count' = no_new_posts_count + 1
                             /\ IF Stagnated(no_new_posts_count', posts_after)
                                THEN spc' = "post" /\ reason' = "stagnation"
                                ELSE spc' = "scroll" /\ UNCHANGED reason
                             /\ UNCHANGED posts_before
                        ELSE /\ no_new_posts_count' = 0
                             /\ posts_before' = posts_after
                             /\ spc' = "scroll"
                             /\ UNCHANGED reason
    /\ UNCHANGED <<scroll_attempts, cursor, returned, nLoadMore,
                   prevAcc, lastPage, seenOrder, nMerges, remerged, runVars>>

\* lines 271-273 and 227: scroll to the bottom, wait (the browser captures the
\* events of the scroll), count the attempt, test the loop condition.
\* execute_script raising is caught at line 275 and breaks the loop.
LoadMore ==
    /\ spc = "scroll"
    /\ nLoadMore' = nLoadMore + 1
    /\ \/ /\ spc' = "post"
          /\ reason' = "scroll_error"
          /\ raisedAt' = "execute_script"
          /\ UNCHANGED <<scroll_attempts, netlog, cursor>>
       \/ /\ \E batch \in Batches(cursor, MaxBatch) :
                /\ netlog' = netlog \o batch
                /\ cursor' = cursor + NewPages(batch)
          /\ scroll_attempts' = scroll_attempts + 1
          /\ UNCHANGED raisedAt
          /\ IF LoopCondition(scroll_attempts')
             THEN spc' = "eval" /\ UNCHANGED reason
             ELSE spc' = "post" /\ reason' = "max_attempts"
    /\ UNCHANGED <<posts_before, no_new_posts_count, profile_info, returned,
                   nEvals, observed, stagnantEvals, mergeVars, runVars>>

\* lines 279-297: the post urls are added to the edges and the data returned;
\* a reel_info without an edges list raises at line 280 and the outer except
\* returns empty data
PostProcess ==
    /\ spc = "post"
    /\ returned' = IF acc.kind = "badshape"
                   THEN NoneReturned
                   ELSE [profile_info |-> profile_info, reel_info |-> acc]
    /\ spc' = "returned"
    /\ UNCHANGED <<scroll_attempts, posts_before, no_new_posts_count, profile_info,
                   netlog, cursor, nEvals, nLoadMore, observed, stagnantEvals,
                   reason, raisedAt, mergeVars, runVars>>

NextScroll ==
    \/ Navigate
    \/ Evaluate
    \/ LoadMore
    \/ PostProcess

SpecScroll == InitScroll /\ [][NextScroll]_vars

----------------------------------------------------------------------------
(* Claims about the scroll loop *)

(* C9: for every sequence of captured events, raising ones included, the   *)
(* scroll loop ends after at most MAX_SCROLL_ATTEMPTS iterations: at most  *)
(* 15 evaluation steps and at most 15 load-more actions, and the function  *)
(* is never stuck before it has returned.                                  *)
C9_ScrollTerminates ==
    /\ nEvals <= MAX_SCROLL_ATTEMPTS
    /\ nLoadMore <= MAX_SCROLL_ATTEMPTS
    /\ scroll_attempts <= MAX_SCROLL_ATTEMPTS
    /\ nEvals <= scroll_attempts + 1
    /\ nLoadMore <= nEvals
    /\ spc \in {"eval", "scroll"} => scroll_attempts < MAX_SCROLL_ATTEMPTS
    /\ spc # "returned" => ENABLED NextScroll

C9_Witness ==
    /\ spc = "returned"
    /\ reason = "max_attempts"
    /\ nEvals = MAX_SCROLL_ATTEMPTS
    /\ nLoadMore = MAX_SCROLL_ATTEMPTS

(* C10: an evaluation step that observes a record count >= the target ends *)
(* the loop at that step for the reason "target reached", with no further  *)
(* load-more, whatever the stagnation and attempt counters are.            *)
C10_TargetStops ==
    (observed >= target_posts) =>
        /\ spc \in {"post", "returned"}
        /\ reason = "target"

C10_Witness ==
    /\ observed = target_posts
    /\ reason = "target"
    /\ scroll_attempts = MAX_SCROLL_ATTEMPTS - 1
    /\ no_new_posts_count = max_no_new - 1
    /\ spc = "returned"

(* C11: when three evaluation steps in a row each observe the count of the *)
(* step before, and that count is at least the floor (30) and below the    *)
(* target, the loop ends at the third of them for stagnation (never later, *)
(* never at the attempt budget); below the floor, stagnation never ends    *)
(* the loop, however long it lasts.                                        *)
C11_StagnationStops ==
    /\ (stagnantEvals >= max_no_new /\ observed >= min_posts
           /\ observed < target_posts)
          => /\ stagnantEvals = max_no_new
             /\ spc \in {"post", "returned"}
             /\ reason = "stagnation"
    /\ reason = "stagnation"
          => /\ observed >= min_posts
             /\ observed < target_posts
             /\ stagnantEvals = max_no_new
    /\ (stagnantEvals >= max_no_new /\ observed < min_posts)
          => reason # "stagnation"

C11_Witness ==
    /\ spc = "returned"
    /\ reason = "stagnation"
    /\ observed = min_posts
    /\ stagnantEvals = max_no_new
    /\ scroll_attempts < MAX_SCROLL_ATTEMPTS - 1

(* C12: a bad network frame never ends the scroll loop: an event whose     *)
(* body is missing, is not JSON or has an unexpected shape (the timeline   *)
(* key without an edges list) is dropped and never becomes the             *)
(* accumulation, and what the other events gave is what scrape_profile     *)
(* returns.                                                                *)
C12_BadFrameDropped ==
    /\ acc.kind # "badshape"
    /\ (spc = "returned" /\ reason # "fatal")
          => returned = [profile_info |-> profile_info, reel_info |-> acc]

\* a body that has both query names, or neither
Unrecognized(response_body) ==
    (response_body.user # "none") = Truthy(response_body.timeline)

(* C13: a body with both query names ('user' and the timeline key), or     *)
(* with neither, is unrecognized: process_graphql_response sets neither    *)
(* profile_info nor reel_info for it, and handling it leaves the           *)
(* accumulation as it is.                                                  *)
C13_ExactlyOneQueryName ==
    \A i \in 1..Len(netlog) :
        (netlog[i].kind = "body" /\ Unrecognized(netlog[i].body))
          => /\ process_graphql_response(netlog[i].body)
                   = [profile_info |-> "none", reel_info |-> NoData]
             /\ HandleResponse([profile_info |-> profile_info, reel_info |-> acc],
                               netlog[i])
                   = [profile_info |-> profile_info, reel_info |-> acc]

----------------------------------------------------------------------------
(* Claims about the workers and the supervisor *)

\* the positions of save_data after the failure test of line 326
Persisting == {"write_profile", "write_timeline", "wait",
               "done_append", "done_write", "input_remove"}

(* C14: an item whose data ends with a private profile snapshot or with no *)
(* profile snapshot is a permanent failure: the step of save_data that     *)
(* judges it adds one to failed, appends the identifier to the failure     *)
(* list, leaves saved and the done-file as they are, and the worker goes   *)
(* straight to the end of the item; it never gets to the persisting steps. *)
C14_PrivateOrMissingFails ==
    /\ [](\A w \in Workers :
            pc[w] \in Persisting => data[w].profile_info = "public")
    /\ [][\A w \in Workers :
            (/\ pc[w] = "save" /\ pc'[w] # "save" /\ phase' = "running"
             /\ data[w].profile_info \in {"none", "private"})
              => /\ stats'.failed = stats.failed + 1
                 /\ no_response_links' = Append(no_response_links, cur[w])
                 /\ stats'.saved = stats.saved
                 /\ doneFile' = doneFile
                 /\ newly_completed_urls' = newly_completed_urls
                 /\ pc'[w] = "update"]_vars
    /\ [][\A w \in Workers :
            (pc[w] = "update" /\ pc'[w] # "update" /\ phase' = "running")
              => pc'[w] = "loop" /\ doneFile' = doneFile]_vars

C14_Witness ==
    \E w \in Workers :
        /\ pc[w] = "update"
        /\ data[w] = ScrapeResult("private", TRUE)
        /\ stats.failed = 1 /\ stats.saved = 0
        /\ no_response_links = <<cur[w]>>
        /\ doneFile.st = "absent"

(* C15: with an empty pending list (an empty or unreadable input file, or  *)
(* every input identifier already done) main reports total = 0 and         *)
(* returns: no worker is started and nothing is queued, the failure list   *)
(* stays empty, and the input file and the done-file are left as they are. *)
C15_NothingPendingNoWork ==
    /\ []((run >= 1 /\ urls_to_process = <<>>)
            => /\ stats = ZeroStats
               /\ phase = "finished"
               /\ \A w \in Workers : pc[w] = "idle" /\ cur[w] = NoUrl
               /\ url_queue = <<>> /\ unfinished = 0
               /\ no_response_links = <<>>
               /\ newly_completed_urls = <<>>)
    /\ [][(run' # run /\ urls_to_process' = <<>>)
            => inputFile' = inputFile /\ doneFile' = doneFile]_vars

\* every input identifier is in the done-file
C15_Witness ==
    /\ run >= 1
    /\ inputFile = CsvFile("ok", << <<"a", "/">>, <<"b">> >>)
    /\ doneFile = CsvFile("ok", << <<"b", "/", "/">>, <<" ", "a">> >>)
    /\ urls_to_process = <<>>
    /\ phase = "finished"

\* the number of entries of s equal to u
Count(s, u) == Cardinality({i \in 1..Len(s) : s[i] = u})

\* the queue is drained: main can pass, or has passed, url_queue.join()
Drained == phase = "finished" \/ (phase = "running" /\ unfinished = 0)

C17_MainEventuallyReports == (phase = "running") ~> (phase = "finished")

\* worker w takes a step of the running process from position label
Leaves(w, label) ==
    phase = "running" /\ phase' = "running" /\ pc[w] = label /\ pc'[w] # label

(* C18: an exception raised while a claimed item is processed does not end *)
(* the worker: the worker records one failure for the item (failed + 1,    *)
(* the identifier appended to the failure list, nothing saved or marked    *)
(* done), marks the queue task done, and is back at the loop, where it     *)
(* claims the next item whenever the queue is not empty.                   *)
C18_BadItemFailsOnce ==
    /\ [](\A w \in Workers :
            (phase = "running" /\ pc[w] \in {"except", "update", "loop"})
              => ENABLED WorkerStep(w))
    /\ [][\A w \in Workers : Leaves(w, "except")
            => /\ stats' = [stats EXCEPT !.failed = @ + 1]
               /\ no_response_links' = Append(no_response_links, cur[w])
               /\ newly_completed_urls' = newly_completed_urls
               /\ doneFile' = doneFile
               /\ pc'[w] = "update"]_vars
    /\ [][\A w \in Workers : Leaves(w, "update")
            => /\ unfinished' = unfinished - 1
               /\ stats' = stats
               /\ no_response_links' = no_response_links
               /\ pc'[w] = "loop"]_vars
    /\ [][\A w \in Workers : Leaves(w, "loop")
            => IF url_queue # <<>>
               THEN pc'[w] = "scrape" /\ cur'[w] = Head(url_queue)
               ELSE pc'[w] = "exit"]_vars

\* worker 1 counted its first item as saved, failed on writing its timeline,
\* and has claimed the second item
C18_Witness ==
    /\ claimedBy = <<1, 1>>
    /\ urls_to_process = << <<"a">>, <<"b">> >>
    /\ stats.saved = 1 /\ stats.failed = 1
    /\ no_response_links = << <<"a">> >>
    /\ cur[1] = <<"b">> /\ pc[1] = "scrape"
    /\ unfinished = 1

\* the workers at a position
At(label) == {w \in Workers : pc[w] = label}

\* worker w is between the read and the write of a counter
InStats(w) == pc[w] \in {"failed_write", "saved_write", "pictures_write"}

\* worker w is between the done-list append and the rewrite of the input file
InDone(w) == pc[w] \in {"done_write", "input_remove", "input_write"}

\* the rows of the done-file not accounted for by the done list of this run
DoneRowsBefore ==
    Len(doneFile.rows) - Len(newly_completed_urls) + Cardinality(At("done_write"))

(* C19: a worker changes the counters and the failure list only while it   *)
(* holds stats_lock, and the done list, the done-file and the input file   *)
(* only while it holds done_urls_lock; no two workers are inside such a    *)
(* mutation at once, and nothing is lost: every counter is the number of   *)
(* increments begun minus those still in progress, the failure list has    *)
(* one entry per failure, the done-file one row per done-list entry, and   *)
(* the input file holds the original rows that are not in the done-file.   *)
C19_MutationsUnderLock ==
    /\ [](/\ \A w \in Workers : InStats(w) => stats_lock = w
          /\ \A w \in Workers : InDone(w) => done_urls_lock = w
          /\ \A v, w \in Workers :
                v # w => ~(InStats(v) /\ InStats(w)) /\ ~(InDone(v) /\ InDone(w))
          /\ stats.failed = intended.failed - Cardinality(At("failed_write"))
          /\ stats.saved = intended.saved - Cardinality(At("saved_write"))
          /\ stats.pictures_downloaded
                = intended.pictures_downloaded - Cardinality(At("pictures_write"))
          /\ Len(no_response_links) = intended.failed
          /\ (\A w \in Workers : ~InDone(w))
                => inputFile.rows = SelectSeq(originalInput,
                                              LAMBDA u : u \notin Range(doneFile.rows)))
    /\ [][(phase = "running" /\ phase' = "running")
            => DoneRowsBefore' = DoneRowsBefore]_vars

\* worker 1 is between the read and the write of the failed counter while
\* worker 2 waits for stats_lock to count its profile as saved
C19_Witness ==
    /\ pc[1] = "failed_write" /\ stats_lock = 1
    /\ pc[2] = "saved_lock"
    /\ count_read[1] = 0 /\ stats.saved = 0

----------------------------------------------------------------------------
(* SpecWait: calculate_dynamic_wait_time on every profile and draw *)

InitWait ==
    /\ NoMerges /\ NoRuns /\ NoScroll /\ NoSpinner
    /\ wait_profile \in ProfileData
    /\ base_wait \in BaseDraws
    /\ wait_time = -1

\* save_data, line 353
CalculateWait ==
    /\ wait_time = -1
    /\ wait_time' = calculate_dynamic_wait_time(wait_profile, base_wait)
    /\ UNCHANGED <<wait_profile, base_wait, fileVars, mainVars, workerVars,
                   histVars, lockVars, itemVars, spinVars, mergeVars, scrollVars>>

NextWait == CalculateWait

SpecWait == InitWait /\ [][NextWait]_vars

(* C20: for non-negative follower and post counts the part of the wait     *)
(* that is not random is min(followers / 500000 + posts / 5000, 1.0): it   *)
(* never exceeds 1.0, it does not decrease when a count grows, it is 0     *)
(* without a profile snapshot, and the wait returned is the base draw plus *)
(* that part, so between base and base + 1.0.                              *)
C20_WaitBounded ==
    LET extra == DeterministicWait(wait_profile)
    IN /\ extra >= 0 /\ extra <= OneSecond
       /\ wait_profile.kind = "user"
             => /\ LET sum == wait_profile.followers
                                + wait_profile.posts * (FollowerDivisor \div PostDivisor)
                   IN extra = IF sum >= OneSecond THEN OneSecond ELSE sum
                /\ \A f \in FollowerCounts, p \in PostCounts :
                      (f >= wait_profile.followers /\ p >= wait_profile.posts)
                        => DeterministicWait(UserProfile(f, p)) >= extra
       /\ wait_profile.kind # "user" => extra = 0
       /\ wait_time # -1
             => /\ wait_time = base_wait + extra
                /\ wait_time >= base_wait
                /\ wait_time <= base_wait + OneSecond

\* a profile below the clamp: 250000 followers and 1 post give 250100 ticks
C20_Witness ==
    /\ wait_profile = UserProfile(FollowerDivisor \div 2, 1)
    /\ base_wait = OneSecond + OneSecond \div 2
    /\ wait_time = base_wait + FollowerDivisor \div 2 + FollowerDivisor \div PostDivisor

----------------------------------------------------------------------------
(* Claims about the progress record *)

C22_FailedNotPendingAgain ==
    [][(phase = "finished" /\ run' = run + 1)
        => \A i \in 1..Len(no_response_links) :
              Normalize(no_response_links[i]) \notin NormSet(urls_to_process')]_vars

----------------------------------------------------------------------------
(* Claims about the exceptions and the order of the scroll loop *)

(* C23: an exception while the events of an iteration are read (a failure  *)
(* to read the network log) counts as an iteration without new events: the *)
(* stagnation counter grows by one and the loop goes on to the next        *)
(* load-more instead of ending.                                            *)
C23_ReadErrorContinues ==
    [][(raisedAt = "no" /\ raisedAt' = "get_log")
        => /\ spc' = "scroll"
           /\ reason' = "running"
           /\ no_new_posts_count' = no_new_posts_count + 1]_vars

(* C24: every load-more is followed by an evaluation step that reads the   *)
(* events captured since the evaluation before, and the loop ends only     *)
(* from an evaluation step: when it has ended without an exception, no     *)
(* captured event is left unread and there is one evaluation more than     *)
(* there were load-mores.                                                  *)
C24_EveryLoadMoreEvaluated ==
    (spc \in {"post", "returned"} /\ raisedAt = "no")
      => /\ netlog = <<>>
         /\ nEvals = nLoadMore + 1


----------------------------------------------------------------------------
(* Claims about the order of a worker's steps on one item *)

\* worker w comes to the statement `label` of a running process
Enters(w, label) == phase' = "running" /\ pc[w] # label /\ pc'[w] = label

(* C25: for an item that is saved the worker writes userInfo.json, then    *)
(* postInfo.json, then makes the rate limiter's wait, and only then        *)
(* appends the url to the done-file; so in every state, also after a stop  *)
(* of the process at any point, a url of the done-file has its             *)
(* userInfo.json written.                                                  *)
C25_ArtifactsBeforeDone ==
    /\ [](\A i \in 1..Len(doneFile.rows) : doneFile.rows[i] \in userInfo_json)
    /\ [][\A w \in Workers :
            /\ Enters(w, "write_timeline")
                  => pc[w] = "write_profile" /\ cur[w] \in userInfo_json'
            /\ Enters(w, "wait") => pc[w] = "write_timeline"
            /\ Enters(w, "done_append") => pc[w] = "wait" /\ waited'[w]
            /\ Enters(w, "done_write") => pc[w] = "done_append"
            /\ (pc[w] = "done_write" /\ doneFile'.rows # doneFile.rows)
                  => /\ waited[w]
                     /\ cur[w] \in userInfo_json
                     /\ doneFile'.rows = Append(doneFile.rows, cur[w])]_vars

\* the process was stopped after an item was appended to the done-file
C25_Witness ==
    /\ phase = "crashed"
    /\ doneFile.rows # <<>>
    /\ Range(doneFile.rows) \subseteq userInfo_json

(* C26: when a call of the browser session raises while an item is         *)
(* harvested (the navigation, the read of the network log or the load-more *)
(* script), what scrape_profile returns is a failure for save_data: the    *)
(* item is recorded as failed and is neither saved nor appended to the     *)
(* done-file.                                                              *)
C26_SessionErrorFails ==
    (spc = "returned" /\ raisedAt \in {"navigate", "get_log", "execute_script"})
      => IsFailure(ScrapeResult(returned.profile_info,
                                Truthy(returned.reel_info)))

----------------------------------------------------------------------------
(* Claims about the files over stops of the process *)

(* C27: in every state of a run, under every interleaving of the workers   *)
(* and with a stop of the process between any two file operations, every   *)
(* url of the original input list is in the input file or in the           *)
(* done-file; a row leaves the input file only when it is already in the   *)
(* done-file, and the done-file only grows.                                *)
C27_NoWorkLost ==
    /\ [](\A u \in Range(originalInput) :
             u \in Range(inputFile.rows) \/ u \in Range(doneFile.rows))
    /\ [][/\ IsPrefix(doneFile.rows, doneFile'.rows)
          /\ \A u \in Range(inputFile.rows) \ Range(inputFile'.rows) :
                u \in Range(doneFile.rows)]_vars

\* the process was stopped between the append to the done-file and the
\* rewrite of the input file, after another item was moved
C27_Witness ==
    /\ phase = "crashed"
    /\ \E u \in Range(originalInput) :
          u \in Range(inputFile.rows) /\ u \in Range(doneFile.rows)
    /\ \E u \in Range(originalInput) :
          u \notin Range(inputFile.rows) /\ u \in Range(doneFile.rows)

----------------------------------------------------------------------------
(* Claims about the counters *)

(* C28: every seeded item is counted once: in every state                  *)
(* saved + failed <= total and pictures_downloaded <= saved, and when main *)
(* has written its summary saved + failed = total and the failure list     *)
(* has `failed` entries, also when save_data raises after userInfo.json    *)
(* was written and counted.                                                *)
C28_CountedOnce ==
    /\ stats.saved + stats.failed <= stats.total
    /\ stats.pictures_downloaded <= stats.saved
    /\ (phase = "finished" /\ run >= 1)
          => /\ stats.saved + stats.failed = stats.total
             /\ Len(no_response_links) = stats.failed

----------------------------------------------------------------------------
(* SpecSpinner: the workers calling scrape_profile, each call with its     *)
(* spinner thread.  spinner_active is one module-level flag, written by    *)
(* every worker without a lock and read by every spinner thread.           *)

otherVars == <<fileVars, mainVars, workerVars, histVars, lockVars, waitVars,
               itemVars, mergeVars, scrollVars>>

\* scrape_profile, line 208: spinner_active = True
SetActive(w) ==
    /\ spos[w] = "out"
    /\ scrapes[w] < MaxScrapes
    /\ spinner_active' = TRUE
    /\ spos' = [spos EXCEPT ![w] = "start"]
    /\ scrapes' = [scrapes EXCEPT ![w] = @ + 1]
    /\ UNCHANGED <<spinner_alive, otherVars>>

\* scrape_profile, lines 209-210: the spinner thread of this call is started
StartThread(w) ==
    /\ spos[w] = "start"
    /\ spinner_alive' = [spinner_alive EXCEPT ![w] = TRUE]
    /\ spos' = [spos EXCEPT ![w] = "body"]
    /\ UNCHANGED <<spinner_active, scrapes, otherVars>>

\* scrape_profile, lines 212-288 or 292-293: the harvest ends, normally or
\* by an exception, and spinner_active = False
ClearActive(w) ==
    /\ spos[w] = "body"
    /\ spinner_active' = FALSE
    /\ spos' = [spos EXCEPT ![w] = "join"]
    /\ UNCHANGED <<spinner_alive, scrapes, otherVars>>

\* spinner, lines 102-107: every 0.1 s the thread reads the flag; it ends
\* when it reads False, and writes to the console otherwise
SpinnerCheck(w) ==
    /\ spinner_alive[w]
    /\ ~spinner_active
    /\ spinner_alive' = [spinner_alive EXCEPT ![w] = FALSE]
    /\ UNCHANGED <<spinner_active, spos, scrapes, otherVars>>

\* scrape_profile, lines 289 or 294-295: spinner_thread.join() returns
\* when the thread has ended
JoinSpinner(w) ==
    /\ spos[w] = "join"
    /\ ~spinner_alive[w]
    /\ spos' = [spos EXCEPT ![w] = "out"]
    /\ UNCHANGED <<spinner_active, spinner_alive, scrapes, otherVars>>

InitSpinner == NoMerges /\ NoRuns /\ NoScroll /\ NoWaits /\ NoSpinner

NextSpinner ==
    \E w \in Workers :
        \/ SetActive(w)
        \/ StartThread(w)
        \/ ClearActive(w)
        \/ SpinnerCheck(w)
        \/ JoinSpinner(w)

SpecSpinner == InitSpinner /\ [][NextSpinner]_vars

(* C29: a worker's return from scrape_profile does not wait for another    *)
(* worker: once a worker has set spinner_active to False and waits in the  *)
(* join of its spinner thread, that thread has ended or reads False at its *)
(* next look at the flag, whatever the other workers have written to the   *)
(* flag meanwhile.                                                         *)
C29_JoinNeedsNoOtherWorker ==
    \A w \in Workers :
        spos[w] = "join" => (~spinner_alive[w] \/ ~spinner_active)

----------------------------------------------------------------------------
(* Claims about the rate limiter in the worker loop *)

(* C30: a worker makes the rate limiter's wait between every two harvests: *)
(* when it claims a url after an earlier one, it has waited since it       *)
(* claimed the earlier one, whether that item was saved or failed.         *)
C30_WaitBetweenHarvests ==
    [][\A w \in Workers :
          (/\ phase = "running"
           /\ pc[w] = "loop" /\ pc'[w] = "scrape"
           /\ w \in Range(claimedBy))
             => waited[w]]_vars

====
